---------------------------- MODULE Spec2Model ----------------------------
(***************************************************************************)
(* A model of rtctree/ports.py: Port, DataPort, CorbaPort and their        *)
(* connection caches, the per-object re-entrant locks, and the remote      *)
(* PortService objects they wrap.                                          *)
(*                                                                         *)
(* Python strings that the code takes apart (split, strip, lower, the      *)
(* substring test) are sequences of one-character strings; dictionary      *)
(* keys and exception names, which the code only compares whole, are       *)
(* TLA+ strings.                                                           *)
(***************************************************************************)
EXTENDS Integers, Sequences, FiniteSets, TLC

(***************************************************************************)
(* Bounds of the model.                                                    *)
(***************************************************************************)
NumPorts == 2
NumComps == 2
NumThreads == 2
MaxDests == 2
MaxCalls == 3
MaxConns == 2
MaxConnCalls == 2
MaxConcCalls == 2

Ports == 1..NumPorts
Comps == 1..NumComps
Threads == 1..NumThreads

Range(s) == {s[i] : i \in 1..Len(s)}

(***************************************************************************)
(* Python string operations used by Port.connect.                          *)
(***************************************************************************)
UpperChars == <<"A","B","C","D","E","F","G","H","I","J","K","L","M",
                "N","O","P","Q","R","S","T","U","V","W","X","Y","Z">>
LowerChars == <<"a","b","c","d","e","f","g","h","i","j","k","l","m",
                "n","o","p","q","r","s","t","u","v","w","x","y","z">>

\* str.lower() on one character
LowerChar(c) ==
    IF \E i \in 1..Len(UpperChars) : UpperChars[i] = c
    THEN LowerChars[CHOOSE i \in 1..Len(UpperChars) : UpperChars[i] = c]
    ELSE c

\* str.lower()
Lower(s) == [i \in 1..Len(s) |-> LowerChar(s[i])]

\* sub in s  (Python's substring test on strings)
Contains(s, sub) ==
    \E i \in 1..(Len(s) - Len(sub) + 1) : SubSeq(s, i, i + Len(sub) - 1) = sub

\* the characters str.strip() removes
Whitespace == {" ", "\t", "\n", "\r"}

RECURSIVE LStrip(_)
LStrip(s) == IF s # <<>> /\ Head(s) \in Whitespace THEN LStrip(Tail(s)) ELSE s

RECURSIVE RStrip(_)
RStrip(s) ==
    IF s # <<>> /\ s[Len(s)] \in Whitespace
    THEN RStrip(SubSeq(s, 1, Len(s) - 1))
    ELSE s

\* str.strip()
Strip(s) == RStrip(LStrip(s))

\* str.split(sep) for a one-character separator: never an empty list
RECURSIVE Split(_, _)
Split(s, sep) ==
    IF \E i \in 1..Len(s) : s[i] = sep
    THEN LET i == CHOOSE i \in 1..Len(s) :
                     s[i] = sep /\ \A j \in 1..(i - 1) : s[j] # sep
         IN  <<SubSeq(s, 1, i - 1)>> \o Split(SubSeq(s, i + 1, Len(s)), sep)
    ELSE <<s>>

\* [x.strip() for x in adv.split(',')]
AllowedValues(adv) == {Strip(x) : x \in Range(Split(adv, ","))}

any == <<"a","n","y">>

\* 'any' in adv.lower()
HasAny(adv) == Contains(Lower(adv), any)

\* The condition under which Port.connect raises for one endpoint:
\*   props[prop] not in [x.strip() for x in P[prop].split(',')] and
\*   'any' not in P[prop].lower()
Rejects_nosplit(adv, v) == v # adv /\ ~HasAny(adv)
Rejects(adv, v) == v \notin AllowedValues(adv) /\ ~HasAny(adv)

(***************************************************************************)
(* Strings of the model.                                                   *)
(***************************************************************************)
push == <<"p","u","s","h">>
pull == <<"p","u","l","l">>
flush == <<"f","l","u","s","h">>
corba_cdr == <<"c","o","r","b","a","_","c","d","r">>
new == <<"n","e","w">>
TimedLong == <<"T","i","m","e","d","L","o","n","g">>
DataInPortStr == <<"D","a","t","a","I","n","P","o","r","t">>
DataOutPortStr == <<"D","a","t","a","O","u","t","P","o","r","t">>
CorbaPortStr == <<"C","o","r","b","a","P","o","r","t">>
OtherPortStr == <<"P","o","r","t">>
\* advertised value lists
PullPush == <<"p","u","l","l",","," ","p","u","s","h">>
AnyCap == <<"A","n","y">>
Many == <<"m","a","n","y">>

(***************************************************************************)
(* Property dictionaries: functions from keys to values.                   *)
(***************************************************************************)
K_FLOW == "dataport.dataflow_type"
K_INTF == "dataport.interface_type"
K_SUBS == "dataport.subscription_type"
K_DATA == "dataport.data_type"
K_PORT == "port.port_type"

\* the order in which a dictionary's keys are visited
KeyOrder == <<K_FLOW, K_INTF, K_SUBS, K_DATA, K_PORT>>

EmptyMap == <<>>

\* for prop in props
PropKeys(props) == SelectSeq(KeyOrder, LAMBDA k : k \in DOMAIN props)

\* d[k] = v on a copy
WithKey(d, k, v) == [x \in (DOMAIN d) \cup {k} |-> IF x = k THEN v ELSE d[x]]

\* utils.dict_to_nvlist: the dictionary as a list of name/value pairs
dict_to_nvlist(d) ==
    LET ks == PropKeys(d)
    IN  [i \in 1..Len(ks) |-> [name |-> ks[i], value |-> d[ks[i]]]]

\* utils.nvlist_to_dict: a later pair with the same name wins
RECURSIVE nvlist_to_dict(_)
nvlist_to_dict(nv) ==
    IF nv = <<>> THEN EmptyMap
    ELSE LET last == nv[Len(nv)]
         IN  WithKey(nvlist_to_dict(SubSeq(nv, 1, Len(nv) - 1)),
                     last.name, last.value)

(***************************************************************************)
(* Remote port profiles (RTC.PortProfile) the model draws from.            *)
(***************************************************************************)
PortName(p) == <<"p", ToString(p)>>

\* Component.instance_name and Component.full_path_str of component c
instance_name(c) == <<"c", ToString(c)>>
full_path_str(c) == <<"/">> \o instance_name(c) \o <<".", "r", "t", "c">>

\* the name a component gives its port: instance name, '.', port name
ProfileName(c, p) == instance_name(c) \o <<".">> \o PortName(p)

NV(k, v) == [name |-> k, value |-> v]

\* data port property lists: the allowed dataflow types and the data type
DataPropsWide ==
    { <<NV(K_FLOW, PullPush), NV(K_DATA, TimedLong)>>,
      <<NV(K_FLOW, AnyCap), NV(K_DATA, TimedLong)>>,
      <<NV(K_FLOW, Many), NV(K_DATA, TimedLong)>>,
      <<NV(K_FLOW, pull), NV(K_DATA, TimedLong)>>,
      <<NV(K_FLOW, PullPush)>> }
DataPropsNarrow ==
    { <<NV(K_FLOW, PullPush), NV(K_DATA, TimedLong)>> }

Intf(n, pol) == [instance_name |-> n, polarity |-> pol]

InterfacesWide ==
    { <<>>,
      <<Intf("A", "PROVIDED")>>,
      <<Intf("A", "REQUIRED")>>,
      <<Intf("A", "PROVIDED"), Intf("B", "REQUIRED")>> }
InterfacesNarrow ==
    { <<>>, <<Intf("A", "PROVIDED")>> }

Profile(p, ptype, props, intfs) ==
    [name |-> PortName(p),
     properties |-> <<NV(K_PORT, ptype)>> \o props,
     interfaces |-> intfs]

\* a profile that has no port.port_type property
UntypedProfile(p) ==
    [name |-> PortName(p), properties |-> <<>>, interfaces |-> <<>>]

ProfilesOf(p, dataProps, intfs) ==
    {Profile(p, OtherPortStr, <<>>, <<>>)}
    \cup {Profile(p, DataInPortStr, dp, <<>>) : dp \in dataProps}
    \cup {Profile(p, DataOutPortStr, dp, <<>>) : dp \in dataProps}
    \cup {Profile(p, CorbaPortStr, <<>>, is) : is \in intfs}

\* properties a caller asks for
ReqPropsWide ==
    { EmptyMap,
      K_FLOW :> push,
      K_FLOW :> flush,
      K_PORT :> flush }
ReqPropsNarrow ==
    { EmptyMap, K_FLOW :> flush }

\* the props and name arguments of connect (named: a name is given)
ArgsWide == [props : ReqPropsWide, named : BOOLEAN]
ArgsNarrow == [props : ReqPropsNarrow, named : {FALSE}]

\* lists of distinct ports of at most MaxDests entries
RECURSIVE DestLists(_)
DestLists(n) ==
    IF n = 0 THEN {<<>>}
    ELSE LET shorter == DestLists(n - 1)
         IN  shorter \cup
             {Append(ds, d) : ds \in {x \in shorter : Len(x) = n - 1},
                              d \in Ports} 
AllDests == {ds \in DestLists(MaxDests) :
                \A i, j \in 1..Len(ds) : i # j => ds[i] # ds[j]}

(***************************************************************************)
(* Exceptions and return codes.                                            *)
(***************************************************************************)
NoError == "None"
ValidationErrors ==
    {"WrongPortTypeError", "IncompatibleDataPortConnectionPropsError",
     "MismatchedInterfacesError", "MismatchedPolarityError"}
RTC_OK == "RTC_OK"
RTC_ERROR == "RTC_ERROR"
ReturnCodes == {RTC_OK, RTC_ERROR}

\* SvcInterface.PROVIDED, SvcInterface.REQUIRED
PROVIDED == 1
REQUIRED == 2

(***************************************************************************)
(* A lazily computed attribute: None, or a list.                           *)
(***************************************************************************)
None == [some |-> FALSE, val |-> <<>>]
Some(l) == [some |-> TRUE, val |-> l]
\* "not x" for None or a list
Not(x) == ~x.some \/ x.val = <<>>

(***************************************************************************)
(* State.                                                                  *)
(***************************************************************************)
VARIABLES
    tree,         \* the component of each remote port, and the components
                  \* that are in the tree
    owner,        \* Port._owner: a component, or 0 for None
    profile,      \* remote: each PortService's PortProfile
    remote,       \* remote: the ConnectorProfiles that exist, oldest first
    kind,         \* Port.porttype: the class parse_port chose
    name,         \* Port._name
    properties,   \* Port._properties
    connections,  \* Port._connections
    interfaces,   \* CorbaPort._interfaces
    mutex,        \* Port._mutex: the RLock's owner (0: none) and count
    th,           \* each thread's call in progress
    fetches,      \* get_connector_profiles calls per port since _connections
                  \* was last set to None
    ifetches,     \* get_port_profile calls of CorbaPort.interfaces per port
                  \* since the port's last reparse
    ncalls        \* calls started so far

vars == <<tree, owner, profile, remote, kind, name, properties, connections, interfaces,
          mutex, th, fetches, ifetches, ncalls>>

(***************************************************************************)
(* Construction: parse_port and the constructors.                          *)
(***************************************************************************)
DataKinds == {"DataInPort", "DataOutPort"}

\* props['port.port_type'] when props has no such key
MissingType_generic == "Port"
MissingType == "KeyError"

\* parse_port: the class chosen from the port.port_type property
parse_port(prof) ==
    LET props == nvlist_to_dict(prof.properties)
    IN  IF K_PORT \notin DOMAIN props THEN MissingType
        ELSE IF props[K_PORT] = DataInPortStr THEN "DataInPort"
        ELSE IF props[K_PORT] = DataOutPortStr THEN "DataOutPort"
        ELSE IF props[K_PORT] = CorbaPortStr THEN "CorbaPort"
        ELSE "Port"

\* what a thread remembers of the call it made before this one
NoCall == [op |-> "none", port |-> 0, dests |-> <<>>, err |-> NoError,
           call |-> 0]

\* A thread that is in no call.  pc, k, i, j and todo are the position in
\* the call; depth counts the "with self._mutex" blocks it is inside; err,
\* result and bresult are the outcome; rcalls and nfetch count the connect
\* requests and the get_connector_profiles calls of the call; sent lists
\* its disconnect requests, each with the port it was sent through and the
\* connector id it named; snap holds the caches as they were when the call began, prev the call before; arg is
\* the caller's props dictionary, given what it held when the call began,
\* props the dictionary the call works on; cdepth counts the "with
\* self._mutex" blocks of a Connection it is inside; seen is the connection list a
\* read of Port.connections had in the cache when it left the lock.
Idle ==
    [pc |-> "idle", op |-> "none", port |-> 0, dests |-> <<>>,
     props |-> EmptyMap, arg |-> EmptyMap, given |-> EmptyMap,
     named |-> FALSE, k |-> 0, i |-> 0, j |-> 0,
     call |-> 0, depth |-> 0, cdepth |-> 0, err |-> NoError, rcalls |-> 0, nfetch |-> 0,
     sent |-> <<>>,
     todo |-> <<>>, result |-> None, bresult |-> FALSE,
     seen |-> None, snap |-> <<>>, prev |-> NoCall]

\* s.startswith(prefix)
StartsWith(s, prefix) ==
    Len(s) >= Len(prefix) /\ SubSeq(s, 1, Len(prefix)) = prefix

\* Port._parse: the name of the profile, without the prefix
\* owner.instance_name + '.' if there is an owner and the name has it
ParsedName(prof, ow) ==
    LET prefix == instance_name(ow) \o <<".">>
    IN  IF ow # 0 /\ StartsWith(prof.name, prefix)
        THEN SubSeq(prof.name, Len(prefix) + 1, Len(prof.name))
        ELSE prof.name

\* the tree in which no component is
NoTree == [comp |-> [p \in Ports |-> 1], intree |-> {}]
NoOwner == [p \in Ports |-> 0]

\* Port.__init__ (and CorbaPort.__init__) for every port: pr gives the
\* remote profiles, tr the tree, ow the owner each port is made with and
\* rem the connector profiles the remote holds
InitWith(pr, tr, ow, rem) ==
    /\ tree = tr
    /\ owner = ow
    /\ profile = [p \in Ports |->
                    [pr[p] EXCEPT !.name = ProfileName(tr.comp[p], p)]]
    /\ remote = rem
    /\ kind = [p \in Ports |-> parse_port(pr[p])]
    /\ name = [p \in Ports |-> ParsedName(profile[p], ow[p])]
    /\ properties = [p \in Ports |-> nvlist_to_dict(pr[p].properties)]
    /\ connections = [p \in Ports |-> None]
    /\ interfaces = [p \in Ports |-> None]
    /\ mutex = [p \in Ports |-> [owner |-> 0, count |-> 0]]
    /\ th = [t \in Threads |-> Idle]
    /\ fetches = [p \in Ports |-> 0]
    /\ ifetches = [p \in Ports |-> 0]
    /\ ncalls = 0

(***************************************************************************)
(* The re-entrant locks.                                                   *)
(***************************************************************************)
\* RLock.acquire does not block thread t
CanLock(t, p) == mutex[p].owner \in {0, t}

\* the lock of p when thread t is depth "with self._mutex" blocks deep
SetLock_released(m, t, p, depth) ==
    [m EXCEPT ![p] = [owner |-> 0, count |-> 0]]
SetLock(m, t, p, depth) ==
    [m EXCEPT ![p] = IF depth = 0 THEN [owner |-> 0, count |-> 0]
                     ELSE [owner |-> t, count |-> depth]]

\* thread t's call goes on as r: its record, and its own port's lock
Commit(t, r) ==
    /\ th' = [th EXCEPT ![t] = r]
    /\ mutex' = SetLock(mutex, t, r.port, r.depth)

\* an exception leaves every "with" block of the call
Raise_goes_on(r, e) == [r EXCEPT !.err = e, !.pc = "remote"]
Raise(r, e) ==
    [r EXCEPT !.pc = "done", !.err = e, !.depth = 0, !.cdepth = 0,
              !.k = 0, !.i = 0, !.j = 0, !.todo = <<>>]

\* the call returns normally: it leaves every "with" block
Return_locked(r) ==
    [r EXCEPT !.pc = "done", !.k = 0, !.i = 0, !.j = 0, !.todo = <<>>]
Return(r) ==
    [r EXCEPT !.pc = "done", !.depth = 0, !.cdepth = 0,
              !.k = 0, !.i = 0, !.j = 0, !.todo = <<>>]

\* thread t may start a call: it is in none, and fewer than limit were made
CanStart(t, limit) == th[t].pc \in {"idle", "done"} /\ ncalls < limit

NewCall(t, op, p) ==
    [Idle EXCEPT !.pc = "start", !.op = op, !.port = p, !.call = ncalls + 1,
                 !.snap = IF op = "connect"
                          THEN <<connections, interfaces>> ELSE <<>>,
                 !.prev = [op |-> th[t].op, port |-> th[t].port,
                           dests |-> th[t].dests, err |-> th[t].err,
                           call |-> th[t].call]]

(***************************************************************************)
(* Port.connect                                                            *)
(***************************************************************************)
\* the port types whose connection properties Port.connect checks
CheckedKinds_all == {"Port", "DataInPort", "DataOutPort", "CorbaPort"}
CheckedKinds == DataKinds

\* After the property checks: the default name reads every destination's
\* name; then the request is sent.
ToName(r) ==
    IF ~r.named /\ r.dests # <<>>
    THEN [r EXCEPT !.pc = "name", !.i = 1]
    ELSE [r EXCEPT !.pc = "remote"]

\* "for prop in props" from the k-th key on: this port's own check, then the
\* first destination's (which takes that destination's lock)
RECURSIVE CheckFrom(_, _)
CheckFrom(r, k) ==
    LET keys == PropKeys(r.props)
    IN  IF k > Len(keys) THEN ToName(r)
        ELSE IF /\ keys[k] \in DOMAIN properties[r.port]
                /\ Rejects(properties[r.port][keys[k]], r.props[keys[k]])
             THEN Raise(r, "IncompatibleDataPortConnectionPropsError")
        ELSE IF r.dests = <<>> THEN CheckFrom(r, k + 1)
        ELSE [r EXCEPT !.pc = "check", !.k = k, !.i = 1]

\* Port.connect up to the first access to a destination
EnterBase(r) ==
    LET r1 == [r EXCEPT !.depth = @ + 1]
    IN  IF kind[r.port] \in CheckedKinds THEN CheckFrom(r1, 1) ELSE ToName(r1)

\* Port.connect called on a plain Port
PortConnect(t, Args, limit) ==
    /\ CanStart(t, limit)
    /\ \E p \in Ports, ds \in AllDests, a \in Args :
         /\ kind[p] = "Port"
         /\ CanLock(t, p)
         /\ Commit(t, EnterBase([NewCall(t, "connect", p) EXCEPT
                                   !.dests = ds, !.arg = a.props, !.given = a.props,
                                   !.props = a.props,
                                   !.named = a.named]))
    /\ ncalls' = ncalls + 1
    /\ UNCHANGED <<tree, owner, profile, remote, kind, name, properties, connections,
                   interfaces, ifetches, fetches>>

\* if prop in d.properties: ... raise
CheckDest(t) ==
    LET r == th[t]
        d == r.dests[r.i]
        key == PropKeys(r.props)[r.k]
    IN  /\ r.pc = "check"
        /\ CanLock(t, d)
        /\ Commit(t,
             IF /\ key \in DOMAIN properties[d]
                /\ Rejects(properties[d][key], r.props[key])
             THEN Raise(r, "IncompatibleDataPortConnectionPropsError")
             ELSE IF r.i < Len(r.dests) THEN [r EXCEPT !.i = @ + 1]
             ELSE CheckFrom(r, r.k + 1))
        /\ UNCHANGED <<tree, owner, profile, remote, kind, name, properties, connections,
                       interfaces, ifetches, fetches, ncalls>>

\* d.name for one destination, for the default connection name
DestName(t) ==
    LET r == th[t]
    IN  /\ r.pc = "name"
        /\ CanLock(t, r.dests[r.i])
        /\ Commit(t, IF r.i < Len(r.dests) THEN [r EXCEPT !.i = @ + 1]
                     ELSE [r EXCEPT !.pc = "remote"])
        /\ UNCHANGED <<tree, owner, profile, remote, kind, name, properties, connections,
                       interfaces, ifetches, fetches, ncalls>>

\* '_'.join(names)
RECURSIVE Join(_)
Join(names) ==
    IF names = <<>> THEN <<>>
    ELSE IF Len(names) = 1 THEN names[1]
    ELSE names[1] \o <<"_">> \o Join(Tail(names))

\* name = self.name + '_'.join([d.name for d in dests])
ConnectionName(r) ==
    IF r.named THEN <<"c", "o", "n", "n">>
    ELSE name[r.port] \o Join([i \in 1..Len(r.dests) |-> name[r.dests[i]]])

\* RTC.ConnectorProfile(name, id, [self._obj] + [d._obj for d in dests], props)
\* as the remote stores it: it generates the connector id; held is the set
\* of ports whose get_connector_profiles lists the profile
ConnectorProfile(r, id) ==
    [name |-> ConnectionName(r), connector_id |-> id,
     ports |-> <<r.port>> \o r.dests,
     held |-> {r.port} \cup Range(r.dests),
     properties |-> dict_to_nvlist(r.props)]

\* self._obj.connect(profile): the request is sent
SendConnect(t) ==
    LET r == th[t]
    IN  /\ r.pc = "remote"
        /\ Commit(t, [r EXCEPT !.pc = "inremote", !.rcalls = @ + 1])
        /\ UNCHANGED <<tree, owner, profile, remote, kind, name, properties, connections,
                       interfaces, ifetches, fetches, ncalls>>

\* if return_code != RTC.RTC_OK: raise FailedToConnectError(return_code)
ConnectError(rc) == IF rc # RTC_OK THEN "FailedToConnectError" ELSE NoError

\* Port.reparse_connections on the caches cs
Invalidated_kept(cs, p) == cs
Invalidated(cs, p) == [cs EXCEPT ![p] = None]

\* After the request succeeded: self.reparse_connections(), then the loop
\* over the destinations
AfterConnect(r) ==
    IF r.dests = <<>> THEN Return(r)
    ELSE [r EXCEPT !.pc = "reparse", !.i = 1]

\* the caches when the request returned rc: self.reparse_connections() comes
\* after the raise
CachesAfterReturn_early(cs, p, rc) == Invalidated(cs, p)
CachesAfterReturn(cs, p, rc) ==
    IF ConnectError(rc) # NoError THEN cs ELSE Invalidated(cs, p)

\* the remote answers the connect request
ReturnConnect(t) ==
    LET r == th[t]
    IN  /\ r.pc = "inremote"
        /\ \E rc \in ReturnCodes :
             /\ connections' = CachesAfterReturn(connections, r.port, rc)
             /\ IF ConnectError(rc) # NoError
                THEN /\ Commit(t, Raise(r, ConnectError(rc)))
                     /\ UNCHANGED <<remote, fetches>>
                ELSE /\ remote' = Append(remote,
                                         ConnectorProfile(r, r.call))
                     /\ fetches' = [fetches EXCEPT ![r.port] = 0]
                     /\ Commit(t, AfterConnect(r))
        /\ UNCHANGED <<tree, owner, profile, kind, name, properties, interfaces, ifetches, ncalls>>

\* d.reparse_connections() for one destination
ReparseDest(t) ==
    LET r == th[t]
        d == r.dests[r.i]
    IN  /\ r.pc = "reparse"
        /\ CanLock(t, d)
        /\ connections' = Invalidated(connections, d)
        /\ fetches' = [fetches EXCEPT ![d] = 0]
        /\ Commit(t, IF r.i < Len(r.dests) THEN [r EXCEPT !.i = @ + 1]
                     ELSE Return(r))
        /\ UNCHANGED <<tree, owner, profile, remote, kind, name, properties, interfaces, ifetches,
                       ncalls>>

(***************************************************************************)
(* DataPort.connect                                                        *)
(***************************************************************************)
\* ptypes = [d.porttype for d in dests]
PortTypes(dests) == {kind[dests[i]] : i \in 1..Len(dests)}

\* the two "raise WrongPortTypeError" conditions
WrongDataPortType_nonempty(p, dests) ==
    /\ dests # <<>>
    /\ \/ kind[p] = "DataInPort" /\ "DataOutPort" \notin PortTypes(dests)
       \/ kind[p] = "DataOutPort" /\ "DataInPort" \notin PortTypes(dests)
WrongDataPortType(p, dests) ==
    \/ kind[p] = "DataInPort" /\ "DataOutPort" \notin PortTypes(dests)
    \/ kind[p] = "DataOutPort" /\ "DataInPort" \notin PortTypes(dests)

\* if key not in new_props: new_props[key] = value
SetDefault_overwrite(d, k, v) == WithKey(d, k, v)
SetDefault(d, k, v) == IF k \in DOMAIN d THEN d ELSE WithKey(d, k, v)

\* new_props = props.copy(): the caller's dictionary props after the call
\* has changed new_props
CallerDict(props, new_props) == props

\* new_props after the three constant defaults
ConstantDefaults(props) ==
    SetDefault(SetDefault(SetDefault(props, K_FLOW, push),
                          K_INTF, corba_cdr),
               K_SUBS, new)

\* DataPort.connect up to the first access to a destination
EnterData(r) ==
    LET r1 == [r EXCEPT !.depth = @ + 1]
        np == ConstantDefaults(r.props)
    IN  IF WrongDataPortType(r.port, r.dests)
        THEN Raise(r1, "WrongPortTypeError")
        ELSE IF K_DATA \notin DOMAIN np /\ K_DATA \notin DOMAIN properties[r.port]
        THEN Raise(r1, "KeyError")
        ELSE LET new_props ==
                     SetDefault(np, K_DATA, properties[r.port][K_DATA])
             IN  EnterBase([r1 EXCEPT !.props = new_props,
                                      !.arg = CallerDict(r.arg, new_props)])

DataPortConnect(t, Args, limit) ==
    /\ CanStart(t, limit)
    /\ \E p \in Ports, ds \in AllDests, a \in Args :
         /\ kind[p] \in DataKinds
         /\ CanLock(t, p)
         /\ Commit(t, EnterData([NewCall(t, "connect", p) EXCEPT
                                   !.dests = ds, !.arg = a.props, !.given = a.props,
                                   !.props = a.props,
                                   !.named = a.named]))
    /\ ncalls' = ncalls + 1
    /\ UNCHANGED <<tree, owner, profile, remote, kind, name, properties, connections,
                   interfaces, ifetches, fetches>>

(***************************************************************************)
(* CorbaPort.connect                                                       *)
(***************************************************************************)
\* SvcInterface.__init__ / SvcInterface._parse
SvcInterface(obj) ==
    [instance_name |-> obj.instance_name,
     polarity |-> IF obj.polarity = "PROVIDED" THEN PROVIDED ELSE REQUIRED]

\* CorbaPort.interfaces: the cache after the property was read
InterfacesRead(ifs, p) ==
    IF Not(ifs[p])
    THEN [ifs EXCEPT ![p] =
            Some([i \in 1..Len(profile[p].interfaces) |->
                    SvcInterface(profile[p].interfaces[i])])]
    ELSE ifs

\* the get_port_profile calls CorbaPort.interfaces has made, after one more
\* read of the property of p
InterfaceFetches(ifs, n, p) ==
    IF Not(ifs[p]) THEN [n EXCEPT ![p] = @ + 1] ELSE n

\* CorbaPort.get_interface_by_instance_name on the list intfs: the index of
\* the first interface of that name, 0 for None
InterfaceByName_first(intfs, n) == IF intfs = <<>> THEN 0 ELSE 1
InterfaceByName(intfs, n) ==
    IF \E i \in 1..Len(intfs) : intfs[i].instance_name = n
    THEN CHOOSE i \in 1..Len(intfs) :
             /\ intfs[i].instance_name = n
             /\ \A h \in 1..(i - 1) : intfs[h].instance_name # n
    ELSE 0

\* new_props['port.port_type'] = 'CorbaPort', then Port.connect
CorbaToBase(r) ==
    LET new_props == SetDefault(r.props, K_PORT, CorbaPortStr)
    IN  EnterBase([r EXCEPT !.props = new_props,
                            !.arg = CallerDict(r.arg, new_props)])

\* CorbaPort.connect up to the first access to a destination; ifs is the
\* cache after self.interfaces was read
EnterCorba(r, ifs) ==
    LET r1 == [r EXCEPT !.depth = @ + 1]
    IN  IF \E i \in 1..Len(r.dests) : kind[r.dests[i]] # "CorbaPort"
        THEN Raise(r1, "WrongPortTypeError")
        ELSE IF r.dests = <<>> THEN CorbaToBase(r1)
        ELSE IF ifs[r.port].val # <<>>
        THEN [r1 EXCEPT !.pc = "intf_any", !.i = 1]
        ELSE [r1 EXCEPT !.pc = "intf_none", !.i = 1]

CorbaPortConnect(t, Args, limit) ==
    /\ CanStart(t, limit)
    /\ \E p \in Ports, ds \in AllDests, a \in Args :
         LET r == [NewCall(t, "connect", p) EXCEPT
                      !.dests = ds, !.arg = a.props, !.given = a.props,
                      !.props = a.props, !.named = a.named]
             typesOk == \A i \in 1..Len(ds) : kind[ds[i]] = "CorbaPort"
             ifs == IF typesOk THEN InterfacesRead(interfaces, p)
                    ELSE interfaces
         IN  /\ kind[p] = "CorbaPort"
             /\ CanLock(t, p)
             /\ interfaces' = ifs
             /\ ifetches' = IF typesOk
                            THEN InterfaceFetches(interfaces, ifetches, p)
                            ELSE ifetches
             /\ Commit(t, EnterCorba(r, ifs))
    /\ ncalls' = ncalls + 1
    /\ UNCHANGED <<tree, owner, profile, remote, kind, name, properties, connections,
                   fetches>>

\* if self.interfaces: for d in dests: if not d.interfaces: raise
CorbaDeclared(t) ==
    LET r == th[t]
        d == r.dests[r.i]
        ifs == InterfacesRead(interfaces, d)
    IN  /\ r.pc = "intf_any"
        /\ CanLock(t, d)
        /\ interfaces' = ifs
        /\ ifetches' = InterfaceFetches(interfaces, ifetches, d)
        /\ Commit(t,
             IF ifs[d].val = <<>> THEN Raise(r, "MismatchedInterfacesError")
             ELSE IF r.i < Len(r.dests) THEN [r EXCEPT !.i = @ + 1]
             ELSE [r EXCEPT !.pc = "intf_match", !.j = 1, !.i = 1])
        /\ UNCHANGED <<tree, owner, profile, remote, kind, name, properties, connections,
                       fetches, ncalls>>

\* for intf in self.interfaces: for d in dests: match = ...; raise
CorbaMatch(t) ==
    LET r == th[t]
        d == r.dests[r.i]
        ifs == InterfacesRead(interfaces, d)
        intf == interfaces[r.port].val[r.j]
        m == InterfaceByName(ifs[d].val, intf.instance_name)
    IN  /\ r.pc = "intf_match"
        /\ CanLock(t, d)
        /\ interfaces' = ifs
        /\ ifetches' = InterfaceFetches(interfaces, ifetches, d)
        /\ Commit(t,
             IF m = 0 THEN Raise(r, "MismatchedInterfacesError")
             ELSE IF intf.polarity = ifs[d].val[m].polarity
             THEN Raise(r, "MismatchedPolarityError")
             ELSE IF r.i < Len(r.dests) THEN [r EXCEPT !.i = @ + 1]
             ELSE IF r.j < Len(interfaces[r.port].val)
             THEN [r EXCEPT !.j = @ + 1, !.i = 1]
             ELSE CorbaToBase(r))
        /\ UNCHANGED <<tree, owner, profile, remote, kind, name, properties, connections,
                       fetches, ncalls>>

\* else: for d in dests: if d.interfaces: raise
CorbaNone(t) ==
    LET r == th[t]
        d == r.dests[r.i]
        ifs == InterfacesRead(interfaces, d)
    IN  /\ r.pc = "intf_none"
        /\ CanLock(t, d)
        /\ interfaces' = ifs
        /\ ifetches' = InterfaceFetches(interfaces, ifetches, d)
        /\ Commit(t,
             IF ifs[d].val # <<>> THEN Raise(r, "MismatchedInterfacesError")
             ELSE IF r.i < Len(r.dests) THEN [r EXCEPT !.i = @ + 1]
             ELSE CorbaToBase(r))
        /\ UNCHANGED <<tree, owner, profile, remote, kind, name, properties, connections,
                       fetches, ncalls>>

\* CorbaPort.interfaces: "with self._mutex: if not self._interfaces: ..."
ReadInterfaces(t, limit) ==
    /\ CanStart(t, limit)
    /\ \E p \in Ports :
         /\ kind[p] = "CorbaPort"
         /\ CanLock(t, p)
         /\ interfaces' = InterfacesRead(interfaces, p)
         /\ ifetches' = InterfaceFetches(interfaces, ifetches, p)
         /\ Commit(t, [NewCall(t, "interfaces", p) EXCEPT
                         !.pc = "return_intfs",
                         !.nfetch = IF Not(interfaces[p]) THEN 1 ELSE 0])
    /\ ncalls' = ncalls + 1
    /\ UNCHANGED <<tree, owner, profile, remote, kind, name, properties,
                   connections, fetches>>

\* CorbaPort.interfaces: "return self._interfaces", after the lock was
\* released
ReturnInterfaces(t) ==
    LET r == th[t]
    IN  /\ r.pc = "return_intfs"
        /\ th' = [th EXCEPT ![t] = Return([r EXCEPT
                                             !.result = interfaces[r.port]])]
        /\ UNCHANGED <<mutex, tree, owner, profile, remote, kind, name,
                       properties, connections, interfaces, ifetches, fetches,
                       ncalls>>

(***************************************************************************)
(* Port.connections, Port.is_connected, Port.reparse, Port.disconnect_all  *)
(***************************************************************************)
\* self._obj.get_connector_profiles()
get_connector_profiles(p) ==
    SelectSeq(remote, LAMBDA cp : p \in cp.held)

\* Connection.__init__ / Connection._parse
Connection(cp, own) ==
    [id |-> cp.connector_id, name |-> cp.name, obj |-> cp, owner |-> own,
     ports |-> None, properties |-> nvlist_to_dict(cp.properties)]

\* the test that decides whether Port.connections builds the list
MustFetch(c) == Not(c)

\* Port.connections, the part under the lock: the cache afterwards
ConnectionsRead(cs, p) ==
    IF MustFetch(cs[p])
    THEN LET cps == get_connector_profiles(p)
         IN  [cs EXCEPT ![p] =
                Some([i \in 1..Len(cps) |-> Connection(cps[i], p)])]
    ELSE cs

\* the get_connector_profiles calls that read makes
FetchesRead(cs, p) == IF MustFetch(cs[p]) THEN 1 ELSE 0

\* Port.connections: "with self._mutex: if not self._connections: ..."
ReadConnections(t, limit) ==
    /\ CanStart(t, limit)
    /\ \E p \in Ports :
         /\ CanLock(t, p)
         /\ connections' = ConnectionsRead(connections, p)
         /\ fetches' = [fetches EXCEPT ![p] = @ + FetchesRead(connections, p)]
         /\ Commit(t, [NewCall(t, "connections", p) EXCEPT
                         !.pc = "return",
                         !.seen = ConnectionsRead(connections, p)[p],
                         !.nfetch = FetchesRead(connections, p)])
    /\ ncalls' = ncalls + 1
    /\ UNCHANGED <<tree, owner, profile, remote, kind, name, properties, interfaces, ifetches>>

\* "return self._connections" is outside the with block: it reads the
\* attribute anew, after the lock was released
ReturnedList_seen(seen, now) == seen
ReturnedList(seen, now) == now

\* Port.connections: "return self._connections", after the lock was released
ReturnConnections(t) ==
    LET r == th[t]
    IN  /\ r.pc = "return"
        /\ th' = [th EXCEPT ![t] = Return([r EXCEPT
                     !.result = ReturnedList(r.seen, connections[r.port])])]
        /\ UNCHANGED <<mutex, tree, owner, profile, remote, kind, name, properties, connections,
                       interfaces, ifetches, fetches, ncalls>>

\* Port.is_connected
IsConnected(t, limit) ==
    /\ CanStart(t, limit)
    /\ \E p \in Ports :
         LET cs == ConnectionsRead(connections, p)
         IN  /\ CanLock(t, p)
             /\ connections' = cs
             /\ fetches' = [fetches EXCEPT
                              ![p] = @ + FetchesRead(connections, p)]
             /\ Commit(t, Return([NewCall(t, "is_connected", p) EXCEPT
                                    !.nfetch = FetchesRead(connections, p),
                                    !.bresult = ~Not(cs[p])]))
    /\ ncalls' = ncalls + 1
    /\ UNCHANGED <<tree, owner, profile, remote, kind, name, properties, interfaces, ifetches>>

\* Port.reparse_connections
ReparseConnections(t, limit) ==
    /\ CanStart(t, limit)
    /\ \E p \in Ports :
         /\ CanLock(t, p)
         /\ connections' = Invalidated(connections, p)
         /\ fetches' = [fetches EXCEPT ![p] = 0]
         /\ Commit(t, Return(NewCall(t, "reparse_connections", p)))
    /\ ncalls' = ncalls + 1
    /\ UNCHANGED <<tree, owner, profile, remote, kind, name, properties, interfaces, ifetches>>

\* Port.reparse: self._parse()
Reparse(t, limit) ==
    /\ CanStart(t, limit)
    /\ \E p \in Ports :
         /\ CanLock(t, p)
         /\ name' = [name EXCEPT ![p] = ParsedName(profile[p], owner[p])]
         /\ properties' = [properties EXCEPT
                             ![p] = nvlist_to_dict(profile[p].properties)]
         /\ ifetches' = [ifetches EXCEPT ![p] = 0]
         /\ Commit(t, [NewCall(t, "reparse", p) EXCEPT !.pc = "reparse2"])
    /\ ncalls' = ncalls + 1
    /\ UNCHANGED <<tree, owner, profile, remote, kind, connections, interfaces, fetches>>

\* Port.reparse: self.reparse_connections()
ReparseInvalidate(t) ==
    LET r == th[t]
    IN  /\ r.pc = "reparse2"
        /\ CanLock(t, r.port)
        /\ connections' = Invalidated(connections, r.port)
        /\ fetches' = [fetches EXCEPT ![r.port] = 0]
        /\ Commit(t, Return(r))
        /\ UNCHANGED <<tree, owner, profile, remote, kind, name, properties, interfaces, ifetches,
                       ncalls>>

\* a disconnect request: port.object.disconnect(id)
DisconnectRequest(port, id) == [via |-> port, id |-> id]

\* the remote's disconnect(connector_id)
Disconnected(rem, id) == SelectSeq(rem, LAMBDA cp : cp.connector_id # id)

\* Port.disconnect_all: self.reparse_connections() after the loop
AfterDisconnects_stale(cs, p) == cs
AfterDisconnects(cs, p) == Invalidated(cs, p)

\* Port.disconnect_all: "with self._mutex: for conn in self.connections"
DisconnectAll(t, limit) ==
    /\ CanStart(t, limit)
    /\ \E p \in Ports :
         LET cs == ConnectionsRead(connections, p)
             r == [NewCall(t, "disconnect_all", p) EXCEPT
                     !.nfetch = FetchesRead(connections, p),
                     !.todo = cs[p].val, !.depth = 1]
         IN  /\ CanLock(t, p)
             /\ IF cs[p].val = <<>>
                THEN /\ connections' = AfterDisconnects(cs, p)
                     /\ fetches' = [fetches EXCEPT ![p] = 0]
                     /\ Commit(t, Return(r))
                ELSE /\ connections' = cs
                     /\ fetches' = [fetches EXCEPT
                                      ![p] = @ + FetchesRead(connections, p)]
                     /\ Commit(t, [r EXCEPT !.pc = "disconnect"])
    /\ ncalls' = ncalls + 1
    /\ UNCHANGED <<tree, owner, profile, remote, kind, name, properties, interfaces, ifetches>>

\* self.object.disconnect(conn.id) for the next connection of the list, and
\* self.reparse_connections() after the last
DisconnectNext(t) ==
    LET r == th[t]
        req == DisconnectRequest(r.port, Head(r.todo).id)
    IN  /\ r.pc = "disconnect"
        /\ remote' = Disconnected(remote, Head(r.todo).id)
        /\ IF Len(r.todo) = 1
           THEN /\ connections' = AfterDisconnects(connections, r.port)
                /\ fetches' = [fetches EXCEPT ![r.port] = 0]
                /\ Commit(t, Return([r EXCEPT
                                       !.sent = Append(@, req)]))
           ELSE /\ Commit(t, [r EXCEPT !.todo = Tail(@),
                                       !.sent = Append(@, req)])
                /\ UNCHANGED <<connections, fetches>>
        /\ UNCHANGED <<tree, owner, profile, kind, name, properties, interfaces, ifetches, ncalls>>

(***************************************************************************)
(* Connection: ports, has_port, disconnect.  The list of endpoint records  *)
(* Connection._ports is kept with the Connection, in the connection list   *)
(* of the port that owns it.                                               *)
(***************************************************************************)
\* the Port object parse_port(q, ow) makes for the remote port q
NoPort == [some |-> FALSE, obj |-> 0, owner |-> 0, kind |-> "None",
           name |-> <<>>]
PortObject(q, ow) ==
    [some |-> TRUE, obj |-> q, owner |-> ow, kind |-> parse_port(profile[q]),
     name |-> ParsedName(profile[q], ow)]

Unknown == <<"U", "n", "k", "n", "o", "w", "n">>

\* root.iterate(has_port, args=q, filter=['is_component']), first result:
\* the component of the tree that has the port q, 0 if there is none
FindOwner(q) == IF tree.comp[q] \in tree.intree THEN tree.comp[q] ELSE 0

\* the name of remote port q, without the prefix of component c
StrippedName(q, c) ==
    LET port_name == profile[q].name
        prefix == instance_name(c) \o <<".">>
    IN  IF StartsWith(port_name, prefix)
        THEN SubSeq(port_name, Len(prefix) + 1, Len(port_name))
        ELSE port_name

\* the owner parse_port is given for an endpoint found in the tree:
\* self.owner.owner, the component of the port the connection is of
EndpointOwner_found(c, port_owner) == port_owner
EndpointOwner(c, port_owner) == owner[c.owner]

\* Connection.ports: the record appended for the raw endpoint q
Endpoint(c, q) ==
    IF c.owner # 0 /\ owner[c.owner] # 0
    THEN LET port_owner == FindOwner(q)
         IN  IF port_owner = 0
             THEN [path |-> Unknown, port |-> NoPort]
             ELSE [path |-> full_path_str(port_owner) \o <<":">> \o
                            StrippedName(q, port_owner),
                   port |-> PortObject(q, EndpointOwner(c, port_owner))]
    ELSE [path |-> profile[q].name, port |-> PortObject(q, 0)]

\* Connection.ports: the Connection after the property was read
PortsRead(c) ==
    IF Not(c.ports)
    THEN [c EXCEPT !.ports =
            Some([i \in 1..Len(c.obj.ports) |-> Endpoint(c, c.obj.ports[i])])]
    ELSE c

\* Connection.has_port(port), for the Port object of remote port q:
\* port.object._is_equivalent(p[1].object) for some endpoint with a Port
has_port_unknown(c, q) ==
    \E i \in 1..Len(PortsRead(c).ports.val) :
        PortsRead(c).ports.val[i].port.obj \in {0, q}
has_port(c, q) ==
    LET eps == PortsRead(c).ports.val
    IN  \E i \in 1..Len(eps) : eps[i].port.some /\ eps[i].port.obj = q

\* Connection.disconnect: the index of the endpoint whose port p is when the
\* while loop ends; the loop starts with p = self.ports[0][1] and ii = 1
ScanPorts_first(eps, at, ii) == at
RECURSIVE ScanPorts(_, _, _)
ScanPorts(eps, at, ii) ==
    IF ~eps[at].port.some /\ ii < Len(eps)
    THEN ScanPorts(eps, ii + 1, ii + 1)
    ELSE at

\* Connection.disconnect: the exception it raises
DisconnectError(eps) ==
    IF eps = <<>> THEN "NotConnectedError"
    ELSE IF ~eps[ScanPorts(eps, 1, 1)].port.some
    THEN "UnknownConnectionOwnerError"
    ELSE NoError

\* the connection list cs with ports read on each Connection
AllPortsRead(cs) == [i \in 1..Len(cs) |-> PortsRead(cs[i])]

\* get_connections_by_dests, the loop over dests: its "continue" goes on
\* with the next d, so that res.append(c) follows for every c it is run on
AfterDests_all(c, dests) == \A i \in 1..Len(dests) : has_port(c, dests[i])
AfterDests(c, dests) == TRUE

\* Port.get_connections_by_dests: res
ByDests(cs, p, dests) ==
    SelectSeq(AllPortsRead(cs),
              LAMBDA c : has_port(c, p) /\ AfterDests(c, dests))

\* the ports that have a Port object
Objects == {p \in Ports : kind[p] \in {"Port", "CorbaPort"} \cup DataKinds}

\* Port.get_connections_by_dests(dests)
GetConnectionsByDests(t, limit) ==
    /\ CanStart(t, limit)
    /\ \E p \in Objects, ds \in AllDests :
         LET cs == ConnectionsRead(connections, p)
         IN  /\ CanLock(t, p)
             /\ Range(ds) \subseteq Objects
             /\ connections' = [cs EXCEPT ![p] = Some(AllPortsRead(@.val))]
             /\ fetches' = [fetches EXCEPT
                              ![p] = @ + FetchesRead(connections, p)]
             /\ Commit(t, Return([NewCall(t, "get_connections_by_dests", p)
                                    EXCEPT
                                    !.dests = ds,
                                    !.nfetch = FetchesRead(connections, p),
                                    !.result = Some(ByDests(cs[p].val, p,
                                                            ds))]))
    /\ ncalls' = ncalls + 1
    /\ UNCHANGED <<tree, owner, profile, remote, kind, name, properties,
                   interfaces, ifetches>>

\* p.connections[k].ports
ConnectionPorts(t, limit) ==
    /\ CanStart(t, limit)
    /\ \E p \in Objects :
         LET cs == ConnectionsRead(connections, p)
         IN  /\ CanLock(t, p)
             /\ \E k \in 1..Len(cs[p].val) :
                  /\ connections' = [cs EXCEPT ![p].val[k] = PortsRead(@)]
                  /\ Commit(t, [Return(NewCall(t, "ports", p)) EXCEPT
                                  !.k = k,
                                  !.nfetch = FetchesRead(connections, p)])
             /\ fetches' = [fetches EXCEPT
                              ![p] = @ + FetchesRead(connections, p)]
    /\ ncalls' = ncalls + 1
    /\ UNCHANGED <<tree, owner, profile, remote, kind, name, properties,
                   interfaces, ifetches>>

\* p.connections[k].has_port(q)
ConnectionHasPort(t, limit) ==
    /\ CanStart(t, limit)
    /\ \E p \in Objects, q \in Objects :
         LET cs == ConnectionsRead(connections, p)
         IN  /\ CanLock(t, p)
             /\ \E k \in 1..Len(cs[p].val) :
                  /\ connections' = [cs EXCEPT ![p].val[k] = PortsRead(@)]
                  /\ Commit(t, [Return(NewCall(t, "has_port", p)) EXCEPT
                                  !.k = k, !.dests = <<q>>,
                                  !.nfetch = FetchesRead(connections, p),
                                  !.bresult = has_port(cs[p].val[k], q)])
             /\ fetches' = [fetches EXCEPT
                              ![p] = @ + FetchesRead(connections, p)]
    /\ ncalls' = ncalls + 1
    /\ UNCHANGED <<tree, owner, profile, remote, kind, name, properties,
                   interfaces, ifetches>>

\* Connection.disconnect ends with p.object.disconnect(self.id): the caches
\* cs of the ports are left as they are
AfterDisconnect_invalidated(cs, p) == Invalidated(cs, p)
AfterDisconnect(cs, p) == cs

\* p.connections[k].disconnect()
ConnectionDisconnect(t, limit) ==
    /\ CanStart(t, limit)
    /\ \E p \in Objects :
         LET cs == ConnectionsRead(connections, p)
         IN  /\ CanLock(t, p)
             /\ \E k \in 1..Len(cs[p].val) :
                  LET c == cs[p].val[k]
                      eps == PortsRead(c).ports.val
                      e == DisconnectError(eps)
                      r == [NewCall(t, "disconnect", p) EXCEPT
                              !.nfetch = FetchesRead(connections, p),
                              !.cdepth = 1]
                  IN  /\ connections' =
                             IF e # NoError
                             THEN [cs EXCEPT ![p].val[k] = PortsRead(c)]
                             ELSE AfterDisconnect(
                                    [cs EXCEPT ![p].val[k] = PortsRead(c)], p)
                      /\ IF e # NoError
                         THEN /\ Commit(t, [Raise(r, e) EXCEPT !.k = k])
                              /\ UNCHANGED remote
                         ELSE LET via == eps[ScanPorts(eps, 1, 1)].port.obj
                              IN  /\ remote' = Disconnected(remote, c.id)
                                  /\ Commit(t, [Return(r) EXCEPT
                                       !.k = k,
                                       !.sent = <<DisconnectRequest(via,
                                                                    c.id)>>])
             /\ fetches' = [fetches EXCEPT
                              ![p] = @ + FetchesRead(connections, p)]
    /\ ncalls' = ncalls + 1
    /\ UNCHANGED <<tree, owner, profile, kind, name, properties, interfaces, ifetches>>

(***************************************************************************)
(* parse_port as a call: the Port object of a remote port is made.         *)
(***************************************************************************)
ParsePort(t, limit) ==
    /\ CanStart(t, limit)
    /\ \E p \in Ports : \E ow \in {0, tree.comp[p]} :
         LET cls == parse_port(profile[p])
             r == NewCall(t, "parse_port", p)
         IN  /\ kind[p] = "None"
             /\ IF cls = "KeyError"
                THEN /\ Commit(t, Raise(r, "KeyError"))
                     /\ UNCHANGED <<owner, kind, name, properties>>
                ELSE /\ kind' = [kind EXCEPT ![p] = cls]
                     /\ owner' = [owner EXCEPT ![p] = ow]
                     /\ name' = [name EXCEPT
                                   ![p] = ParsedName(profile[p], ow)]
                     /\ properties' = [properties EXCEPT
                          ![p] = nvlist_to_dict(profile[p].properties)]
                     /\ Commit(t, Return(r))
    /\ ncalls' = ncalls + 1
    /\ UNCHANGED <<tree, profile, remote, connections, interfaces, ifetches, fetches>>

(***************************************************************************)
(* Specifications.                                                         *)
(***************************************************************************)
\* one step of a connect call that is under way
ConnectStep(t) ==
    \/ CheckDest(t)
    \/ DestName(t)
    \/ SendConnect(t)
    \/ ReturnConnect(t)
    \/ ReparseDest(t)
    \/ CorbaDeclared(t)
    \/ CorbaMatch(t)
    \/ CorbaNone(t)

\* One thread makes one connect call, on ports of every profile.
InitV ==
    \E pr \in [Ports -> UNION {ProfilesOf(p, DataPropsWide, InterfacesWide) :
                                  p \in Ports}] :
        /\ \A p \in Ports : pr[p].name = PortName(p)
        /\ InitWith(pr, NoTree, NoOwner, <<>>)

NextV ==
    \/ PortConnect(1, ArgsWide, 1)
    \/ DataPortConnect(1, ArgsWide, 1)
    \/ CorbaPortConnect(1, ArgsWide, 1)
    \/ ConnectStep(1)

SpecV == InitV /\ [][NextV]_vars

\* one step of another call that is under way
OtherStep(t) ==
    \/ ReturnConnections(t)
    \/ ReparseInvalidate(t)
    \/ DisconnectNext(t)

\* thread t starts a call, or goes one step on in its call
Step(t, Args, limit) ==
    \/ PortConnect(t, Args, limit)
    \/ DataPortConnect(t, Args, limit)
    \/ CorbaPortConnect(t, Args, limit)
    \/ ConnectStep(t)
    \/ ReadConnections(t, limit)
    \/ IsConnected(t, limit)
    \/ ReparseConnections(t, limit)
    \/ Reparse(t, limit)
    \/ DisconnectAll(t, limit)
    \/ OtherStep(t)

Init ==
    \E pr \in [Ports -> UNION {ProfilesOf(p, DataPropsNarrow, InterfacesNarrow) :
                                  p \in Ports}] :
        /\ \A p \in Ports : pr[p].name = PortName(p)
        /\ InitWith(pr, NoTree, NoOwner, <<>>)

\* Threads call concurrently.
Next == \E t \in Threads : Step(t, ArgsNarrow, MaxConcCalls)

Spec == Init /\ [][Next]_vars

\* One thread makes one call after the other.
NextSeq == Step(1, ArgsNarrow, MaxCalls)

SpecSeq == Init /\ [][NextSeq]_vars

\* One thread reads the interfaces of service ports, connects them and
\* reparses them.
NextI ==
    \/ ReadInterfaces(1, MaxCalls)
    \/ ReturnInterfaces(1)
    \/ CorbaPortConnect(1, ArgsNarrow, MaxCalls)
    \/ CorbaDeclared(1)
    \/ CorbaMatch(1)
    \/ CorbaNone(1)
    \/ DestName(1)
    \/ SendConnect(1)
    \/ ReturnConnect(1)
    \/ ReparseDest(1)
    \/ Reparse(1, MaxCalls)
    \/ ReparseInvalidate(1)

SpecI == Init /\ [][NextI]_vars

\* The trees: the component of each remote port, and the components that
\* are in the tree.
\* (The first port is of the first component: the others are the same with
\* the components renamed.)
Trees == {tr \in [comp : [Ports -> Comps], intree : SUBSET Comps] :
             tr.comp[1] = 1}

\* A port is made by its component, or with no owner.
OwnersOf(tr) ==
    {ow \in [Ports -> Comps \cup {0}] : \A p \in Ports : ow[p] \in {0, tr.comp[p]}}

\* the i-th connector profile the remote holds before any call: its
\* endpoints are the ports eps, and every port lists it (ids below 0, those
\* of the connect calls of the model are above)
HeldConnector(i, eps) ==
    [name |-> <<"c", "o", "n", "n">>, connector_id |-> 0 - i, ports |-> eps,
     held |-> Ports, properties |-> <<>>]

\* the lists of at most MaxConns such profiles
HeldConnectors ==
    UNION {{[i \in 1..n |-> HeldConnector(i, f[i])] : f \in [1..n -> AllDests]} :
             n \in 0..MaxConns}

\* One thread works on the connections the remote holds.
InitC ==
    \E pr \in [Ports -> UNION {ProfilesOf(p, {}, {}) : p \in Ports}],
       tr \in Trees, rem \in HeldConnectors :
        \E ow \in OwnersOf(tr) :
            /\ \A p \in Ports : pr[p].name = PortName(p)
            /\ InitWith(pr, tr, ow, rem)

NextC ==
    \/ GetConnectionsByDests(1, MaxConnCalls)
    \/ ConnectionPorts(1, MaxConnCalls)
    \/ ConnectionHasPort(1, MaxConnCalls)
    \/ ConnectionDisconnect(1, MaxConnCalls)

SpecC == InitC /\ [][NextC]_vars

\* Threads call concurrently on ports that are connected already, by at
\* most MaxConns connections of all ports.
InitD ==
    \E pr \in [Ports -> UNION {ProfilesOf(p, DataPropsNarrow, InterfacesNarrow) :
                                  p \in Ports}],
       n \in 1..MaxConns :
        /\ \A p \in Ports : pr[p].name = PortName(p)
        /\ InitWith(pr, NoTree, NoOwner,
                    [i \in 1..n |->
                        HeldConnector(i, [p \in 1..NumPorts |-> p])])

SpecD == InitD /\ [][Next]_vars

\* No Port object is made yet; the remote ports have profiles with a known
\* port.port_type, another one, or none.
InitP ==
    \E pr \in [Ports -> UNION {ProfilesOf(p, DataPropsNarrow, {<<>>})
                                  \cup {UntypedProfile(p)} : p \in Ports}],
       tr \in Trees :
        /\ \A p \in Ports : pr[p].name = PortName(p)
        /\ tree = tr
        /\ owner = NoOwner
        /\ profile = [p \in Ports |->
                        [pr[p] EXCEPT !.name = ProfileName(tr.comp[p], p)]]
        /\ remote = <<>>
        /\ kind = [p \in Ports |-> "None"]
        /\ name = [p \in Ports |-> <<>>]
        /\ properties = [p \in Ports |-> EmptyMap]
        /\ connections = [p \in Ports |-> None]
        /\ interfaces = [p \in Ports |-> None]
        /\ mutex = [p \in Ports |-> [owner |-> 0, count |-> 0]]
        /\ th = [t \in Threads |-> Idle]
        /\ fetches = [p \in Ports |-> 0]
        /\ ifetches = [p \in Ports |-> 0]
        /\ ncalls = 0

NextP == ParsePort(1, MaxCalls)

SpecP == InitP /\ [][NextP]_vars

\* One thread disconnects connections the remote holds, one by one or all
\* of a port, and reads and invalidates the caches.
NextX ==
    \/ ConnectionDisconnect(1, MaxConnCalls)
    \/ DisconnectAll(1, MaxConnCalls)
    \/ DisconnectNext(1)
    \/ IsConnected(1, MaxConnCalls)
    \/ ReparseConnections(1, MaxConnCalls)

SpecX == InitC /\ [][NextX]_vars

\* Threads call concurrently, and disconnect single connections, on ports
\* that have a connection already: of all ports or of none, the ports made
\* with no owner or by a component that is not in the tree.
InitL ==
    \E pr \in [Ports -> UNION {ProfilesOf(p, DataPropsNarrow, InterfacesNarrow) :
                                  p \in Ports}],
       ow \in {NoOwner, [p \in Ports |-> 1]},
       eps \in {<<>>, [p \in 1..NumPorts |-> p]} :
        /\ \A p \in Ports : pr[p].name = PortName(p)
        /\ InitWith(pr, NoTree, ow, <<HeldConnector(1, eps)>>)

StepL(t) ==
    \/ Step(t, ArgsNarrow, MaxConcCalls)
    \/ ConnectionDisconnect(t, MaxConcCalls)

NextL == \E t \in Threads : StepL(t)

SpecL == InitL /\ [][NextL]_vars

(***************************************************************************)
(* Properties.                                                             *)
(***************************************************************************)
\* the steps of connect that take the lock of a destination
TouchStages == {"check", "name", "reparse", "intf_any", "intf_match",
                "intf_none"}

\* thread t holds the lock of its own port p
Holds(t, p) == mutex[p].owner = t /\ th[t].port = p /\ th[t].depth > 0

\* thread t, inside connect, is blocked on the lock of destination q
WaitsFor(t, q) ==
    /\ th[t].op = "connect"
    /\ th[t].pc \in TouchStages
    /\ th[t].dests[th[t].i] = q
    /\ ~CanLock(t, q)

\* C1: two threads running A.connect([B]) and B.connect([A]) on distinct
\* ports never each hold their own port's lock while waiting for the
\* other's.
C1_NoCrossWait ==
    \A t1, t2 \in Threads : \A a, b \in Ports :
        ~ ( /\ t1 # t2 /\ a # b
            /\ th[t1].dests = <<b>> /\ th[t2].dests = <<a>>
            /\ Holds(t1, a) /\ WaitsFor(t1, b)
            /\ Holds(t2, b) /\ WaitsFor(t2, a) )

\* a finished call
Done(r, op) == r.pc = "done" /\ r.op = op
ConnectOk(r) == Done(r, "connect") /\ r.err = NoError
ConnectFailed(r) == Done(r, "connect") /\ r.err # NoError

\* the ports of a connect call: the caller and the destinations
Involved(r) == {r.port} \cup Range(r.dests)

\* C2: after a connect that succeeded, the cached connection list of the
\* port and of every destination is None and connect fetched nothing; the
\* read of connections or is_connected that follows on any of these ports
\* fetches once and sees the new connection.
C2_ConnectInvalidates ==
    LET r == th[1]
    IN  /\ ConnectOk(r) =>
              /\ r.nfetch = 0
              /\ \A q \in Involved(r) :
                     connections[q] = None /\ fetches[q] = 0
        /\ ( /\ r.pc = "done"
             /\ r.op \in {"connections", "is_connected"}
             /\ r.prev.op = "connect" /\ r.prev.err = NoError
             /\ r.port \in Involved(r.prev) ) =>
              /\ r.nfetch = 1
              /\ r.op = "is_connected" => r.bresult
              /\ r.op = "connections" =>
                     /\ r.result.some
                     /\ \E i \in 1..Len(r.result.val) :
                            r.result.val[i].id = r.prev.call

\* a destination of a successful connect is read next, and is connected
C2_Witness ==
    LET r == th[1]
    IN  /\ Done(r, "is_connected")
        /\ r.prev.op = "connect" /\ r.prev.err = NoError
        /\ r.port # r.prev.port /\ r.port \in Range(r.prev.dests)
        /\ r.nfetch = 1 /\ r.bresult

\* C3 as stated: a connect that failed leaves every cache, the connection
\* lists and the interface lists, as it was when the call began.
C3_FailedConnectLeavesAllCaches ==
    ConnectFailed(th[1]) => <<connections, interfaces>> = th[1].snap

\* C3, amended: a connect that failed leaves every cached connection list
\* as it was; a cached interface list is as it was, or it was unset or
\* empty, belongs to a service port of the call, and now holds the list
\* CorbaPort.interfaces fetched during validation.
C3_FailedConnectKeepsConnections ==
    LET r == th[1]
    IN  ConnectFailed(r) =>
            /\ connections = r.snap[1]
            /\ \A p \in Ports :
                   \/ interfaces[p] = r.snap[2][p]
                   \/ /\ p \in Involved(r)
                      /\ kind[p] = "CorbaPort"
                      /\ Not(r.snap[2][p])
                      /\ interfaces[p] = InterfacesRead(r.snap[2], p)[p]

\* the remote refused a connect on a port whose cache held a connection
C3_Witness ==
    LET r == th[1]
    IN  /\ ConnectFailed(r)
        /\ r.err = "FailedToConnectError"
        /\ connections[r.port].val # <<>>

\* C4: a connect that ended with a validation error sent no connect
\* request.
C4_ValidationBeforeRemote ==
    \A t \in Threads : th[t].err \in ValidationErrors => th[t].rcalls = 0

\* a destination's properties rejected the call, after the caller's passed
C4_Witness ==
    LET r == th[1]
    IN  /\ Done(r, "connect")
        /\ r.err = "IncompatibleDataPortConnectionPropsError"
        /\ \A key \in DOMAIN r.props :
               key \in DOMAIN properties[r.port] =>
                   ~Rejects(properties[r.port][key], r.props[key])
        /\ \E d \in Range(r.dests) :
               /\ d # r.port
               /\ K_FLOW \in DOMAIN properties[d]
               /\ Rejects(properties[d][K_FLOW], r.props[K_FLOW])
        /\ r.rcalls = 0

\* C5: between two invalidations of a port's connection cache the reads
\* fetch at most once, whatever the remote returns.
C5_AtMostOneFetch == \A p \in Ports : fetches[p] <= 1

\* the call has no destination of the direction opposite to its port's
NoOpposite(r) ==
    \/ /\ kind[r.port] = "DataInPort"
       /\ \A i \in 1..Len(r.dests) : kind[r.dests[i]] # "DataOutPort"
    \/ /\ kind[r.port] = "DataOutPort"
       /\ \A i \in 1..Len(r.dests) : kind[r.dests[i]] # "DataInPort"

\* C6: connect on a data port with no destination of the opposite
\* direction, the empty list included, raises WrongPortTypeError and sends
\* no connect request.
C6_NoOppositeDest ==
    LET r == th[1]
    IN  (r.op = "connect" /\ r.pc # "idle" /\ NoOpposite(r)) =>
            /\ r.pc = "done"
            /\ r.err = "WrongPortTypeError"
            /\ r.rcalls = 0

\* a data-in port was connected to nothing
C6_Witness ==
    /\ Done(th[1], "connect")
    /\ kind[th[1].port] = "DataInPort"
    /\ th[1].dests = <<>>
    /\ th[1].err = "WrongPortTypeError"

\* some destination is not of the direction opposite to the port's
SomeNotOpposite(r) ==
    \/ /\ kind[r.port] = "DataInPort"
       /\ \E i \in 1..Len(r.dests) : kind[r.dests[i]] # "DataOutPort"
    \/ /\ kind[r.port] = "DataOutPort"
       /\ \E i \in 1..Len(r.dests) : kind[r.dests[i]] # "DataInPort"

\* C7: connect on a data port raises WrongPortTypeError if any destination
\* is not a data port of the opposite direction.
C7_EveryDestOpposite ==
    (Done(th[1], "connect") /\ SomeNotOpposite(th[1])) =>
        th[1].err = "WrongPortTypeError"

\* the interfaces a port's remote profile declares
Declared(p) == Range(profile[p].interfaces)

AllCorba(r) == \A i \in 1..Len(r.dests) : kind[r.dests[i]] = "CorbaPort"

\* destination d has no interface of the name of intf
Missing(intf, d) ==
    \A x \in Declared(d) : x.instance_name # intf.instance_name

\* destination d has an interface of the name and the polarity of intf
SamePolarity(intf, d) ==
    \E x \in Declared(d) : /\ x.instance_name = intf.instance_name
                           /\ x.polarity = intf.polarity

\* destination d has an interface of the name of intf, of the other polarity
Counterpart(intf, d) ==
    \E x \in Declared(d) : /\ x.instance_name = intf.instance_name
                           /\ x.polarity # intf.polarity

\* the condition C8 gives for CorbaPort.connect to pass validation
CorbaCompatible(r) ==
    /\ AllCorba(r)
    /\ \/ /\ Declared(r.port) = {}
          /\ \A d \in Range(r.dests) : Declared(d) = {}
       \/ /\ Declared(r.port) # {}
          /\ \A intf \in Declared(r.port) : \A d \in Range(r.dests) :
                 Counterpart(intf, d)

\* C8: CorbaPort.connect sends the connect request exactly when every
\* destination is a CorbaPort and either no port of the call declares an
\* interface, or this port declares some and every destination has, for
\* each, an interface of the same instance name and the opposite polarity.
\* Otherwise it raises WrongPortTypeError if a destination is not a
\* CorbaPort, MismatchedInterfacesError only if a counterpart is missing or
\* one side declares interfaces and the other none, MismatchedPolarityError
\* only if a counterpart of the same name has the same polarity.
C8_CorbaValidation ==
    LET r == th[1]
        p == r.port
    IN  (Done(r, "connect") /\ kind[p] = "CorbaPort") =>
            /\ r.rcalls > 0 <=> CorbaCompatible(r)
            /\ r.err = "WrongPortTypeError" <=> ~AllCorba(r)
            /\ ~CorbaCompatible(r) =>
                   r.err \in {"WrongPortTypeError",
                              "MismatchedInterfacesError",
                              "MismatchedPolarityError"}
            /\ r.err = "MismatchedInterfacesError" =>
                   \/ \E intf \in Declared(p) : \E d \in Range(r.dests) :
                          Missing(intf, d)
                   \/ /\ Declared(p) = {}
                      /\ \E d \in Range(r.dests) : Declared(d) # {}
            /\ r.err = "MismatchedPolarityError" =>
                   \E intf \in Declared(p) : \E d \in Range(r.dests) :
                       SamePolarity(intf, d)

\* {A: Provided} was connected to {A: Required}
C8_Witness ==
    LET r == th[1]
    IN  /\ Done(r, "connect") /\ kind[r.port] = "CorbaPort"
        /\ Len(r.dests) = 1 /\ r.dests[1] # r.port
        /\ Declared(r.port) = {Intf("A", "PROVIDED")}
        /\ Declared(r.dests[1]) = {Intf("A", "REQUIRED")}
        /\ r.rcalls = 1 /\ r.err = NoError

\* C9's rule for one endpoint: the value is none of the stripped,
\* comma-separated allowed values, and "any" (in any case) is none of them
RejectsByValues(adv, v) ==
    /\ v \notin AllowedValues(adv)
    /\ \A x \in AllowedValues(adv) : Lower(x) # any

\* C9: a data port's connect that passed the port type check raises
\* IncompatibleDataPortConnectionPropsError exactly when some requested key
\* is in this port's or a destination's properties and the requested value
\* is none of the allowed values there, unless "any" is one of them.
C9_RejectsUnlessAnyValue ==
    LET r == th[1]
    IN  ( /\ Done(r, "connect") /\ kind[r.port] \in DataKinds
          /\ r.err \notin {"WrongPortTypeError", "KeyError"} ) =>
            ( r.err = "IncompatibleDataPortConnectionPropsError"
              <=> \E key \in DOMAIN r.props : \E e \in Involved(r) :
                      /\ key \in DOMAIN properties[e]
                      /\ RejectsByValues(properties[e][key], r.props[key]) )

\* a requested value is outside what some port of the call allows
AsksOutside(r) ==
    \E key \in DOMAIN r.props : \E e \in Involved(r) :
        /\ key \in DOMAIN properties[e]
        /\ Rejects(properties[e][key], r.props[key])

\* C10 as stated: connect on a plain Port or a CorbaPort that asks for a
\* value outside the allowed ones raises the incompatible-properties error
\* and sends no connect request.
C10_CheckForEveryKind ==
    LET r == th[1]
    IN  ( /\ Done(r, "connect") /\ kind[r.port] \notin DataKinds
          /\ r.err \notin {"WrongPortTypeError", "MismatchedInterfacesError",
                           "MismatchedPolarityError"}
          /\ AsksOutside(r) ) =>
            /\ r.err = "IncompatibleDataPortConnectionPropsError"
            /\ r.rcalls = 0

\* C10, amended: the allowed-value check is made for data ports only.  A
\* connect on a plain Port or a CorbaPort never raises the
\* incompatible-properties error: a plain Port's always sends the connect
\* request, a CorbaPort's whenever its own validation raised nothing.
C10_CheckOnlyForDataPorts ==
    LET r == th[1]
    IN  (Done(r, "connect") /\ kind[r.port] \notin DataKinds) =>
            /\ r.err # "IncompatibleDataPortConnectionPropsError"
            /\ kind[r.port] = "Port" => r.rcalls = 1
            /\ r.err \notin ValidationErrors => r.rcalls = 1

\* a plain Port asked for a value its destination does not allow, and the
\* request was sent
C10_Witness ==
    LET r == th[1]
    IN  /\ Done(r, "connect") /\ kind[r.port] = "Port"
        /\ r.dests # <<>> /\ kind[r.dests[1]] \in DataKinds
        /\ K_FLOW \in DOMAIN r.props
        /\ Rejects(properties[r.dests[1]][K_FLOW], r.props[K_FLOW])
        /\ r.rcalls = 1

\* the four keys DataPort.connect gives a default
DataKeys == {K_FLOW, K_INTF, K_SUBS, K_DATA}

\* the value C11 names as the default of key on port p
DefaultOf(p, key) ==
    IF key = K_FLOW THEN "push"
    ELSE IF key = K_INTF THEN "corba_cdr"
    ELSE IF key = K_SUBS THEN "new"
    ELSE properties[p][K_DATA]

\* the connector that call r made holds the properties props
Connected(r, props) ==
    \E i \in 1..Len(remote) :
        /\ remote[i].connector_id = r.call
        /\ nvlist_to_dict(remote[i].properties) = props

\* C11: a connect on a data port that sent the connect request sent all
\* four keys dataport.dataflow_type, dataport.interface_type,
\* dataport.subscription_type and dataport.data_type; a key the caller gave
\* has the caller's value, a key the caller did not give has 'push',
\* 'corba_cdr', 'new' and the port's own data type; the caller's dictionary
\* is as it was.
C11_DefaultsSent ==
    LET r == th[1]
    IN  (r.op = "connect" /\ kind[r.port] \in DataKinds /\ r.rcalls > 0) =>
            /\ DataKeys \subseteq DOMAIN r.props
            /\ \A key \in DOMAIN r.given : r.props[key] = r.given[key]
            /\ \A key \in DataKeys \ DOMAIN r.given :
                   r.props[key] = DefaultOf(r.port, key)
            /\ r.arg = r.given
            /\ ConnectOk(r) => Connected(r, r.props)

\* the caller asked for 'flush' and the connection was made with it and
\* with the other three defaults
C11_Witness ==
    LET r == th[1]
    IN  /\ ConnectOk(r) /\ kind[r.port] \in DataKinds
        /\ r.given = (K_FLOW :> flush)
        /\ Connected(r, [key \in DataKeys |->
                            IF key = K_FLOW THEN flush
                            ELSE DefaultOf(r.port, key)])

\* a data-out port is connected to one data-in port, with no properties
OutToIn(r) ==
    /\ Done(r, "connect")
    /\ kind[r.port] = "DataOutPort"
    /\ Len(r.dests) = 1 /\ kind[r.dests[1]] = "DataInPort"
    /\ r.given = EmptyMap

\* C12 as stated: a data-out port connected to one data-in port with no
\* properties raises no validation error whatever the two ports advertise,
\* sends the connect request, and the connection made has the four
\* defaults.
C12_DefaultsAlwaysConnect ==
    LET r == th[1]
    IN  OutToIn(r) =>
            /\ r.err \in {NoError, "FailedToConnectError"}
            /\ r.rcalls = 1
            /\ r.err = NoError =>
                   Connected(r, [key \in DataKeys |-> DefaultOf(r.port, key)])

\* the advertised string adv lets the value v through the check of
\* Port.connect
LetsThrough(adv, v) ==
    \/ v \in AllowedValues(adv)
    \/ Contains(Lower(adv), any)

\* the default of some key is not let through by port e
DefaultRefused(p, e) ==
    \E key \in DataKeys :
        /\ key \in DOMAIN properties[e]
        /\ ~LetsThrough(properties[e][key], DefaultOf(p, key))

\* C12, amended: the call raises KeyError if the data-out port advertises
\* no dataport.data_type; otherwise it raises
\* IncompatibleDataPortConnectionPropsError if one of the two ports
\* advertises a key whose default is not among its allowed values (and its
\* string has no "any"); in both cases no request is sent.  Otherwise the
\* request is sent, and if the remote accepts it the connection has the
\* four defaults.
C12_DefaultsConnectWhenAllowed ==
    LET r == th[1]
        p == r.port
        d == r.dests[1]
    IN  OutToIn(r) =>
            IF K_DATA \notin DOMAIN properties[p]
            THEN r.err = "KeyError" /\ r.rcalls = 0
            ELSE IF DefaultRefused(p, p) \/ DefaultRefused(p, d)
            THEN /\ r.err = "IncompatibleDataPortConnectionPropsError"
                 /\ r.rcalls = 0
            ELSE /\ r.err \in {NoError, "FailedToConnectError"}
                 /\ r.rcalls = 1
                 /\ r.err = NoError =>
                        Connected(r, [key \in DataKeys |->
                                         DefaultOf(p, key)])

\* the data-in port allows only 'pull', and the default 'push' was refused
C12_Witness ==
    LET r == th[1]
    IN  /\ OutToIn(r)
        /\ properties[r.dests[1]][K_FLOW] = pull
        /\ ~DefaultRefused(r.port, r.port)
        /\ r.err = "IncompatibleDataPortConnectionPropsError"

\* the remote ports that the endpoint records of Connection c resolved to
Resolved(c) ==
    {c.ports.val[i].port.obj :
        i \in {j \in 1..Len(c.ports.val) : c.ports.val[j].port.some}}

\* C13: get_connections_by_dests(dests) on port P returns exactly the
\* connections of P's connection list whose resolved endpoints include P
\* and every port of dests.
C13_ByDestsHasEveryDest ==
    LET r == th[1]
    IN  Done(r, "get_connections_by_dests") =>
            r.result.val =
                SelectSeq(connections[r.port].val,
                          LAMBDA c : ({r.port} \cup Range(r.dests))
                                         \subseteq Resolved(c))

\* the Connection that the call r of ports, has_port or disconnect was
\* made on
ConnectionOf(r) == connections[r.port].val[r.k]

\* the index of the first endpoint record that has a Port
FirstResolved(eps) ==
    CHOOSE i \in 1..Len(eps) :
        eps[i].port.some /\ \A j \in 1..(i - 1) : ~eps[j].port.some

Ids(l) == [i \in 1..Len(l) |-> l[i].id]

\* thread t is in the loop of disconnect_all
InLoop(t) == th[t].op = "disconnect_all" /\ th[t].pc = "disconnect"

\* In the loop of disconnect_all on port P the thread holds P's lock, no
\* other thread is inside a "with" block of P, and the requests sent and
\* the connections still to go are P's connection list, in order, each
\* request sent through P.
C15_InLoop ==
    \A t \in Threads :
        InLoop(t) =>
            LET r == th[t]
            IN  /\ mutex[r.port].owner = t
                /\ \A u \in Threads \ {t} :
                       ~(th[u].port = r.port /\ th[u].depth > 0)
                /\ Ids(r.sent) \o Ids(r.todo) = Ids(connections[r.port].val)
                /\ \A i \in 1..Len(r.sent) : r.sent[i].via = r.port

\* A step that begins disconnect_all fetches the list if the cache is None;
\* the step that ends it comes when no connection is left to go but the
\* one it sends the request for, and sets the cache to None.
C15_Steps(t) ==
    LET r == th[t]
        n == th'[t]
    IN  /\ (r.pc \in {"idle", "done"} /\ n.op = "disconnect_all"
              /\ n.call # r.call) =>
               /\ ~connections[n.port].some => n.nfetch = 1
               /\ n.pc = "done" =>
                      /\ get_connector_profiles(n.port) = <<>>
                          \/ connections[n.port] = Some(<<>>)
                      /\ n.sent = <<>>
                      /\ connections'[n.port] = None
                      /\ fetches'[n.port] = 0
        /\ (InLoop(t) /\ n.pc = "done") =>
               /\ Len(r.todo) = 1
               /\ n.sent = Append(r.sent,
                                  [via |-> r.port, id |-> r.todo[1].id])
               /\ connections'[r.port] = None
               /\ fetches'[r.port] = 0

\* C15: disconnect_all on port P sends one disconnect request through P for
\* every connection of P's connection list (fetched first if the cache is
\* None), in list order and with the connection's id, and then sets P's
\* connection cache to None, all while it holds P's lock, so that no other
\* call is inside connect or disconnect_all on P meanwhile.
C15_DisconnectAllUnderLock ==
    []C15_InLoop /\ [][\A t \in Threads : C15_Steps(t)]_vars

\* one request of disconnect_all is sent and one is to go, while another
\* thread's connect waits for the port's lock
C15_Witness ==
    \E t, u \in Threads :
        /\ InLoop(t) /\ th[t].sent # <<>> /\ th[t].todo # <<>>
        /\ u # t /\ th[u].op = "connect" /\ th[u].depth > 0
        /\ WaitsFor(u, th[t].port)

\* C16: an endpoint record that Connection.ports made for the raw endpoint
\* q is (raw profile name, Port with no owner) if the connection's port
\* has no owner; ('Unknown', None) if the tree search finds no component
\* for q; otherwise (path of the component found + ':' + the port's name
\* without that component's prefix, Port), and the Port's owner is the
\* component found.
C16_EndpointOfFoundOwner ==
    \A p \in Ports :
        \A k \in 1..Len(connections[p].val) :
            LET c == connections[p].val[k]
            IN  \A i \in 1..Len(c.ports.val) :
                    LET q == c.obj.ports[i]
                        ep == c.ports.val[i]
                        found == FindOwner(q)
                    IN  IF owner[p] = 0
                        THEN /\ ep.path = profile[q].name
                             /\ ep.port.some /\ ep.port.obj = q
                             /\ ep.port.owner = 0
                        ELSE IF found = 0
                        THEN ep.path = Unknown /\ ~ep.port.some
                        ELSE /\ ep.path = full_path_str(found) \o <<":">> \o
                                          StrippedName(q, found)
                             /\ ep.port.some /\ ep.port.obj = q
                             /\ ep.port.owner = found

\* the class C17 names for a profile
ClassOf(prof) ==
    LET types == {prof.properties[i].value :
                     i \in {j \in 1..Len(prof.properties) :
                               prof.properties[j].name = K_PORT}}
    IN  IF DataInPortStr \in types THEN "DataInPort"
        ELSE IF DataOutPortStr \in types THEN "DataOutPort"
        ELSE IF CorbaPortStr \in types THEN "CorbaPort"
        ELSE "Port"

\* C17: parse_port never raises because of the type property, and makes a
\* DataInPort, DataOutPort or CorbaPort for the port.port_type of that
\* name and a Port otherwise, also for a profile with no port.port_type.
C17_GenericWhenNoType ==
    LET r == th[1]
    IN  Done(r, "parse_port") =>
            /\ r.err = NoError
            /\ kind[r.port] = ClassOf(profile[r.port])

\* C18: the interface list of a service port is fetched at most once
\* between two reparses, and the first read of the property after a reparse
\* fetches it.
C18_Reads ==
    \A p \in Ports :
        th[1]'.op = "interfaces" /\ th[1]'.port = p /\ th[1]'.call # th[1].call
            => /\ ifetches[p] = 0 => th[1]'.nfetch = 1
               /\ ifetches[p] > 0 => th[1]'.nfetch = 0
C18_FetchedOncePerReparse ==
    /\ [](\A p \in Ports : ifetches[p] <= 1)
    /\ [][C18_Reads]_vars

\* the threads inside the remote connect request
InRemote == {t \in Threads : th[t].pc = "inremote"}

\* a step of thread t within a connect call
ConnectStepOf(t) == th[t]' # th[t] /\ th[t]'.op = "connect"

\* the destinations' caches are invalidated only after the request
\* succeeded, one destination at a time, when its lock can be taken
C19_Invalidations(t) ==
    LET r == th[t]
    IN  ConnectStepOf(t) =>
            \A d \in Ports \ {r.port} :
                connections'[d] # connections[d] =>
                    /\ r.pc = "reparse"
                    /\ d = r.dests[r.i]
                    /\ r.rcalls = 1
                    /\ r.err = NoError
                    /\ CanLock(t, d)
                    /\ connections'[d] = None
                    /\ remote # <<>> /\ remote[Len(remote)].connector_id = r.call

\* C19 as it is written: inside the remote connect request a thread holds
\* the lock of its port and the lock of no destination, and the caches of
\* the destinations are invalidated after the request succeeded, each under
\* the destination's lock.
C19_NoDestinationLocked ==
    /\ [](\A t \in InRemote :
            /\ mutex[th[t].port].owner = t
            /\ \A d \in Range(th[t].dests) : mutex[d].owner # t)
    /\ [][\A t \in Threads : C19_Invalidations(t)]_vars

\* C19, amended: inside the remote connect request a thread holds the lock
\* of its port and of no other port (a destination that is the port itself
\* is locked with it), and the caches of the destinations are invalidated
\* after the request succeeded, each under the destination's lock.
C19_OnlyOwnLock ==
    /\ [](\A t \in InRemote :
            /\ mutex[th[t].port].owner = t
            /\ \A d \in Ports \ {th[t].port} : mutex[d].owner # t)
    /\ [][\A t \in Threads : C19_Invalidations(t)]_vars

\* a thread is inside the remote request of a connect to another port,
\* while the other thread is in a call of its own
C19_Witness ==
    \E t \in InRemote :
        /\ th[t].dests # <<>>
        /\ th[t].port \notin Range(th[t].dests)
        /\ \E u \in Threads \ {t} : th[u].pc \notin {"idle", "done"}

C21_ReadReturnsSeenList ==
    \A t \in Threads :
        Done(th[t], "connections") =>
            /\ th[t].result.some
            /\ th[t].result = th[t].seen

\* a connection cache without the endpoint records of its Connections
Listed(c) ==
    [some |-> c.some,
     val |-> [i \in 1..Len(c.val) |-> [c.val[i] EXCEPT !.ports = None]]]

\* the connector ids the remote holds for port p
HeldIds(rem, p) ==
    {rem[i].connector_id : i \in {j \in 1..Len(rem) : p \in rem[j].held}}

\* a step in which Connection.disconnect succeeds: the remote drops the
\* connector, the cache of the owning port is the list the call read, and
\* the cache of every other port is as it was
C22_DisconnectStep ==
    LET r == th[1]'
        p == r.port
    IN  r.call # th[1].call /\ r.op = "disconnect" /\ r.err = NoError =>
            /\ \A q \in Ports \ {p} : connections'[q] = connections[q]
            /\ Listed(connections'[p]) = Listed(ConnectionsRead(connections, p)[p])
            /\ connections'[p].val[r.k].id \notin HeldIds(remote', p)

\* a step of disconnect_all changes the cache of no other port, and the
\* last one leaves the port's own cache None
C22_DisconnectAllStep ==
    LET r == th[1]'
    IN  r # th[1] /\ r.op = "disconnect_all" =>
            /\ \A q \in Ports \ {r.port} : connections'[q] = connections[q]
            /\ r.pc = "done" => connections'[r.port] = None

LockingOps == {"connect", "disconnect_all", "disconnect"}

\* thread t holds no lock of a port and is inside no "with" block
HoldsNothing(t) ==
    /\ \A p \in Ports : mutex[p].owner # t
    /\ th[t].depth = 0
    /\ th[t].cdepth = 0

\* C23: after connect, disconnect_all or Connection.disconnect returned or
\* raised, the calling thread holds no lock of a port or of a connection,
\* so that every port it used can be locked by the other threads unless
\* a call that is still running holds it.
C23_LocksReleased ==
    \A t \in Threads :
        th[t].pc = "done" /\ th[t].op \in LockingOps =>
            /\ HoldsNothing(t)
            /\ \A p \in Involved(th[t]) :
                 mutex[p].owner = 0 \/ th[mutex[p].owner].pc \notin {"idle", "done"}

\* a service port's connect failed inside the base connect, two "with"
\* blocks deep, while the other thread is in a call
C23_Witness ==
    \E t \in Threads :
        /\ Done(th[t], "connect")
        /\ th[t].err = "FailedToConnectError"
        /\ kind[th[t].port] = "CorbaPort"
        /\ \E u \in Threads \ {t} : th[u].pc \notin {"idle", "done"}

=============================================================================
